---------------------------- MODULE Spec2Model ----------------------------
(***************************************************************************)
(* Model of src/noom.py, a grid raycaster for the NumWorks calculator:     *)
(* map classification, collision and sliding movement, the DDA ray march,  *)
(* the per-column projection and shading, the run-length merge of the      *)
(* column rectangles, and the main loop that polls the keys, updates the   *)
(* pose and redraws.                                                       *)
(*                                                                         *)
(* Number representation.  The program computes in floats; the model       *)
(* computes in exact fixed point or exact rationals:                       *)
(*   - a position or length x is the integer x * PosScale;                 *)
(*   - a table sine/cosine s is the integer round(s * TrigScale);          *)
(*   - a ray direction component d is the integer d * DirScale;            *)
(*   - a distance is a pair <<num, den>> with den > 0;                     *)
(*   - an elapsed time is an integer number of 1/TimeScale seconds.        *)
(* Python's int() truncates toward zero and Python's % takes the sign of   *)
(* the divisor; both are modelled as such (PyInt, PyMod), not by \div.     *)
(***************************************************************************)
EXTENDS Integers, Sequences, FiniteSets, TLC

VARIABLES
  px, py,        \* player position (fixed point, 1/PosScale map units)
  ang,           \* player orientation in degrees
  pc,            \* position of the main program / phase of a function application
  turn, fwd, strafe, dt, need_render,   \* locals of the current tick
  tick,          \* number of ticks started
  renders,       \* render() invocations in the current tick
  seen,          \* pose read by the most recent render()
  pose0,         \* pose at the start of the current tick
  call,          \* record of the most recent function application
  cols, col_i,   \* render(): the per-column slices and the loop index
  run,           \* render(): the pending run (run_col is None <=> run = NoRun)
  calls          \* render(): fill_rect calls issued so far, in order

vars == << px, py, ang, pc, turn, fwd, strafe, dt, need_render, tick,
           renders, seen, pose0, call, cols, col_i, run, calls >>

-----------------------------------------------------------------------------
(* Screen / render settings *)

W == 320
H == 240
HALF_H == H \div 2
RENDER_W == 80
COL_W == W \div RENDER_W

-----------------------------------------------------------------------------
(* Fixed-point resolutions *)

PosScale == 100
TrigScale == 1000
TimeScale == 100

-----------------------------------------------------------------------------
(* Python arithmetic *)

\* int(n / d) for d > 0: truncation toward zero
PyInt(n, d) == IF n >= 0 THEN n \div d ELSE -((-n) \div d)

\* n % m for m > 0: result in 0 .. m-1
PyMod(n, m) == n % m

\* C-style remainder, sign of the dividend
TruncMod(n, m) == n - m * PyInt(n, m)

\* floor(n / d) for d > 0
Floor(n, d) == n \div d

\* n / d rounded to the nearest integer, halves away from zero (d > 0)
RoundDiv(n, d) == IF n >= 0 THEN (2 * n + d) \div (2 * d)
                            ELSE -((2 * (-n) + d) \div (2 * d))

Abs(n) == IF n < 0 THEN -n ELSE n

-----------------------------------------------------------------------------
(* Map (grid) *)

MAP ==
  << <<"#","#","#","#","#","#","#","#","#","#","#","#","#","#","#","#","#","#","#","#","#","#","#","#","#","#","#","#","#","#","#","#","#","#","#","#","#","#","#","#","#">>,
     <<"#","#","#","#","#","#","#","#","#","#","#","#","#","#","#","#","#","#","#","#","#","#","#","#","#","#",".",".",".",".",".","#","#","#","#","#","#","#","#","#","#">>,
     <<"#","#","#","#","#","#","#","#","#","#","#","#","#","#","#","#","#","#","#","#","#","#",".",".",".",".",".",".",".",".",".","#","#","#","#","#","#","#","#","#","#">>,
     <<"#",".",".",".",".",".",".",".",".",".","#","#","#","#","#","#","#","#","#","#","#","#",".","#","#","#",".",".",".",".",".",".",".",".",".","#","#","#","#","#","#">>,
     <<"#",".",".",".","#","#","#","#",".",".","#",".","#","#","#","#",".",".",".",".",".",".",".","#","#","#","#","#",".","#","#","#","#","#",".",".","#","#","#","#","#">>,
     <<"#",".",".",".","#",".",".",".",".",".",".",".",".",".",".",".",".",".",".",".",".",".",".",".",".",".",".",".",".",".","#","#","#","#","#",".",".",".",".",".","#">>,
     <<"#",".",".",".","#","#","#","#",".",".","#",".","#","#","#","#",".",".",".",".",".",".",".","#",".",".",".",".",".",".",".","#","#","#","#",".",".","#","#",".","#">>,
     <<"#",".",".",".",".",".",".",".",".",".","#","#","#","#","#","#",".",".",".",".",".",".",".","#",".",".",".",".",".",".",".",".",".",".",".",".",".",".","#",".","#">>,
     <<"#","#","#","#","#","#","#","#","#","#","#","#","#","#","#","#","#","#",".",".",".","#","#","#",".",".",".",".",".",".",".",".",".",".",".",".",".",".","#",".","#">>,
     <<"#","#","#","#","#","#","#","#","#","#","#","#","#","#","#","#","#","#","#","#","#","#","#","#",".",".",".",".",".",".",".",".",".",".",".",".",".",".","#",".","#">>,
     <<"#","#","#","#","#","#","#","#","#","#","#","#","#","#","#","#","#","#","#","#","#","#","#","#","#","#","#","#","#","#","#","#","#",".","#","#","#","#","#",".","#">>,
     <<"#","#","#","#","#","#","#","#","#","#","#","#","#","#","#","#","#","#","#","#","#","#","#","#","#","#","#","#","#","#","#","#","#",".","#","#","#","#","#",".","#">>,
     <<"#","#","#","#","#","#","#","#","#","#","#","#","#","#","#","#","#","#","#","#","#","#","#","#","#","#","#","#","#","#","#","#","#",".","#","#","#",".",".",".","#">>,
     <<"#","#","#","#","#","#","#","#","#","#","#","#","#","#","#","#","#","#","#","#","#","#","#","#","#","#","#","#","#","#","#",".",".",".",".","#","#",".",".",".","#">>,
     <<"#","#","#","#","#","#","#","#","#","#","#","#","#","#","#","#","#","#","#","#","#","#","#","#","#","#","#","#","#","#",".",".",".",".",".",".","#",".",".",".","#">>,
     <<"#","#","#","#","#","#","#","#","#","#","#","#","#","#","#","#","#","#","#","#","#","#","#","#","#","#","#","#","#","#",".",".",".",".",".",".","#","#","#","#","#">>,
     <<"#","#","#","#","#","#","#","#","#","#","#","#","#","#","#","#","#","#","#","#","#","#","#","#","#","#","#","#","#","#","#","#","#",".","#","#","#","#","#","#","#">>,
     <<"#","#","#","#","#","#","#","#","#","#","#","#","#","#","#","#","#","#","#","#","#","#","#","#","#","#","#","#","#","#","#","#","#","D","#","#","#","#","#","#","#">> >>

SIN ==
  << 0, 17, 35, 52, 70, 87, 105, 122, 139, 156, 174, 191, 208, 225, 242,
     259, 276, 292, 309, 326, 342, 358, 375, 391, 407, 423, 438, 454, 469, 485,
     500, 515, 530, 545, 559, 574, 588, 602, 616, 629, 643, 656, 669, 682, 695,
     707, 719, 731, 743, 755, 766, 777, 788, 799, 809, 819, 829, 839, 848, 857,
     866, 875, 883, 891, 899, 906, 914, 921, 927, 934, 940, 946, 951, 956, 961,
     966, 970, 974, 978, 982, 985, 988, 990, 993, 995, 996, 998, 999, 999, 1000,
     1000, 1000, 999, 999, 998, 996, 995, 993, 990, 988, 985, 982, 978, 974, 970,
     966, 961, 956, 951, 946, 940, 934, 927, 921, 914, 906, 899, 891, 883, 875,
     866, 857, 848, 839, 829, 819, 809, 799, 788, 777, 766, 755, 743, 731, 719,
     707, 695, 682, 669, 656, 643, 629, 616, 602, 588, 574, 559, 545, 530, 515,
     500, 485, 469, 454, 438, 423, 407, 391, 375, 358, 342, 326, 309, 292, 276,
     259, 242, 225, 208, 191, 174, 156, 139, 122, 105, 87, 70, 52, 35, 17,
     0, -17, -35, -52, -70, -87, -105, -122, -139, -156, -174, -191, -208, -225, -242,
     -259, -276, -292, -309, -326, -342, -358, -375, -391, -407, -423, -438, -454, -469, -485,
     -500, -515, -530, -545, -559, -574, -588, -602, -616, -629, -643, -656, -669, -682, -695,
     -707, -719, -731, -743, -755, -766, -777, -788, -799, -809, -819, -829, -839, -848, -857,
     -866, -875, -883, -891, -899, -906, -914, -921, -927, -934, -940, -946, -951, -956, -961,
     -966, -970, -974, -978, -982, -985, -988, -990, -993, -995, -996, -998, -999, -999, -1000,
     -1000, -1000, -999, -999, -998, -996, -995, -993, -990, -988, -985, -982, -978, -974, -970,
     -966, -961, -956, -951, -946, -940, -934, -927, -921, -914, -906, -899, -891, -883, -875,
     -866, -857, -848, -839, -829, -819, -809, -799, -788, -777, -766, -755, -743, -731, -719,
     -707, -695, -682, -669, -656, -643, -629, -616, -602, -588, -574, -559, -545, -530, -515,
     -500, -485, -469, -454, -438, -423, -407, -391, -375, -358, -342, -326, -309, -292, -276,
     -259, -242, -225, -208, -191, -174, -156, -139, -122, -105, -87, -70, -52, -35, -17 >>

COS ==
  << 1000, 1000, 999, 999, 998, 996, 995, 993, 990, 988, 985, 982, 978, 974, 970,
     966, 961, 956, 951, 946, 940, 934, 927, 921, 914, 906, 899, 891, 883, 875,
     866, 857, 848, 839, 829, 819, 809, 799, 788, 777, 766, 755, 743, 731, 719,
     707, 695, 682, 669, 656, 643, 629, 616, 602, 588, 574, 559, 545, 530, 515,
     500, 485, 469, 454, 438, 423, 407, 391, 375, 358, 342, 326, 309, 292, 276,
     259, 242, 225, 208, 191, 174, 156, 139, 122, 105, 87, 70, 52, 35, 17,
     0, -17, -35, -52, -70, -87, -105, -122, -139, -156, -174, -191, -208, -225, -242,
     -259, -276, -292, -309, -326, -342, -358, -375, -391, -407, -423, -438, -454, -469, -485,
     -500, -515, -530, -545, -559, -574, -588, -602, -616, -629, -643, -656, -669, -682, -695,
     -707, -719, -731, -743, -755, -766, -777, -788, -799, -809, -819, -829, -839, -848, -857,
     -866, -875, -883, -891, -899, -906, -914, -921, -927, -934, -940, -946, -951, -956, -961,
     -966, -970, -974, -978, -982, -985, -988, -990, -993, -995, -996, -998, -999, -999, -1000,
     -1000, -1000, -999, -999, -998, -996, -995, -993, -990, -988, -985, -982, -978, -974, -970,
     -966, -961, -956, -951, -946, -940, -934, -927, -921, -914, -906, -899, -891, -883, -875,
     -866, -857, -848, -839, -829, -819, -809, -799, -788, -777, -766, -755, -743, -731, -719,
     -707, -695, -682, -669, -656, -643, -629, -616, -602, -588, -574, -559, -545, -530, -515,
     -500, -485, -469, -454, -438, -423, -407, -391, -375, -358, -342, -326, -309, -292, -276,
     -259, -242, -225, -208, -191, -174, -156, -139, -122, -105, -87, -70, -52, -35, -17,
     0, 17, 35, 52, 70, 87, 105, 122, 139, 156, 174, 191, 208, 225, 242,
     259, 276, 292, 309, 326, 342, 358, 375, 391, 407, 423, 438, 454, 469, 485,
     500, 515, 530, 545, 559, 574, 588, 602, 616, 629, 643, 656, 669, 682, 695,
     707, 719, 731, 743, 755, 766, 777, 788, 799, 809, 819, 829, 839, 848, 857,
     866, 875, 883, 891, 899, 906, 914, 921, 927, 934, 940, 946, 951, 956, 961,
     966, 970, 974, 978, 982, 985, 988, 990, 993, 995, 996, 998, 999, 999, 1000 >>

\* per-column ray angles relative to the view direction, lines 96-102:
\* off = ((i + 0.5) / RENDER_W - 0.5) * FOV; sin(off) and cos(off) in
\* 1/TrigScale, entry i + 1 for column i
RAY_SIN ==
  << -494, -483, -471, -460, -448, -436, -425, -413, -401, -389, -377, -364, -352, -340, -328, -315,
     -303, -290, -278, -265, -252, -240, -227, -214, -202, -189, -176, -163, -150, -137, -124, -111,
     -98, -85, -72, -59, -46, -33, -20, -7, 7, 20, 33, 46, 59, 72, 85, 98,
     111, 124, 137, 150, 163, 176, 189, 202, 214, 227, 240, 252, 265, 278, 290, 303,
     315, 328, 340, 352, 364, 377, 389, 401, 413, 425, 436, 448, 460, 471, 483, 494 >>

RAY_COS ==
  << 869, 876, 882, 888, 894, 900, 905, 911, 916, 921, 926, 931, 936, 940, 945, 949,
     953, 957, 961, 964, 968, 971, 974, 977, 979, 982, 984, 987, 989, 991, 992, 994,
     995, 996, 997, 998, 999, 999, 1000, 1000, 1000, 1000, 999, 999, 998, 997, 996, 995,
     994, 992, 991, 989, 987, 984, 982, 979, 977, 974, 971, 968, 964, 961, 957, 953,
     949, 945, 940, 936, 931, 926, 921, 916, 911, 905, 900, 894, 888, 882, 876, 869 >>

MAP_H == Len(MAP)
MAP_W == Len(MAP[1])

\* MAP[my][mx] with Python's 0-based indexing, for in-range indices
Tile(mx, my) == MAP[my + 1][mx + 1]

\* MAP[my][mx] as Python evaluates it without a bounds check: a negative
\* index counts from the end
TileWrap(mx, my) ==
  Tile(IF mx < 0 THEN mx + MAP_W ELSE mx, IF my < 0 THEN my + MAP_H ELSE my)

is_wall(mx, my) ==
  IF mx < 0 \/ my < 0 \/ mx >= MAP_W \/ my >= MAP_H
    THEN TRUE
    ELSE Tile(mx, my) = "#"

\* is_door without its bounds check (negative indices wrap, as in Python)
is_door_unchecked(mx, my) ==
  IF mx >= MAP_W \/ my >= MAP_H \/ mx < -MAP_W \/ my < -MAP_H
    THEN FALSE
    ELSE TileWrap(mx, my) = "D"

is_door(mx, my) ==
  IF mx < 0 \/ my < 0 \/ mx >= MAP_W \/ my >= MAP_H
    THEN FALSE
    ELSE Tile(mx, my) = "D"

-----------------------------------------------------------------------------
(* Player state *)

START_PX == 1950
START_PY == 650
START_ANG == 0
MOVE_SPEED == 220
TURN_SPEED == 120
RADIUS == 18

-----------------------------------------------------------------------------
(* Collision helper *)

\* collides with the last corner test left out
collides_three(x, y) ==
  LET left   == PyInt(x - RADIUS, PosScale)
      right  == PyInt(x + RADIUS, PosScale)
      top    == PyInt(y - RADIUS, PosScale)
      bottom == PyInt(y + RADIUS, PosScale)
  IN  \/ is_wall(left, top) \/ is_door(left, top)
      \/ is_wall(right, top) \/ is_door(right, top)
      \/ is_wall(left, bottom) \/ is_door(left, bottom)

collides(x, y) ==
  LET left   == PyInt(x - RADIUS, PosScale)
      right  == PyInt(x + RADIUS, PosScale)
      top    == PyInt(y - RADIUS, PosScale)
      bottom == PyInt(y + RADIUS, PosScale)
  IN  \/ is_wall(left, top) \/ is_door(left, top)
      \/ is_wall(right, top) \/ is_door(right, top)
      \/ is_wall(left, bottom) \/ is_door(left, bottom)
      \/ is_wall(right, bottom) \/ is_door(right, bottom)

\* try_move that gives up the whole move when the X component is blocked
try_move_noslide(nx, ny, x0, y0) ==
  IF collides(nx, y0)
    THEN << x0, y0 >>
    ELSE << nx, IF ~collides(nx, ny) THEN ny ELSE y0 >>

\* try_move with the Y test made at the X the call started from
try_move_oldx(nx, ny, x0, y0) ==
  LET x1 == IF ~collides(nx, y0) THEN nx ELSE x0
      y1 == IF ~collides(x0, ny) THEN ny ELSE y0
  IN  << x1, y1 >>

\* try_move(nx, ny) called with the globals px = x0, py = y0;
\* the result is the new << px, py >>
try_move(nx, ny, x0, y0) ==
  LET x1 == IF ~collides(nx, y0) THEN nx ELSE x0
      y1 == IF ~collides(x1, ny) THEN ny ELSE y0
  IN  << x1, y1 >>

-----------------------------------------------------------------------------
(* Values of the variables an operation does not use *)

NoRun == [col |-> "None"]
NoCall == [op |-> "none"]

InitRest ==
  /\ turn = 0 /\ fwd = 0 /\ strafe = 0 /\ dt = 0 /\ need_render = FALSE
  /\ tick = 0 /\ renders = 0 /\ seen = << >> /\ pose0 = << >>
  /\ call = NoCall
  /\ cols = << >> /\ col_i = 0 /\ run = NoRun /\ calls = << >>

InitIdle ==
  /\ px = START_PX /\ py = START_PY /\ ang = START_ANG
  /\ InitRest

poseVars == << px, py, ang >>
tickVars ==
  << turn, fwd, strafe, dt, need_render, tick, renders, seen, pose0 >>
renderVars == << cols, col_i, run, calls >>

-----------------------------------------------------------------------------
(* SpecGrid: is_wall, is_door and collides applied to cells and positions  *)
(* inside and around the grid                                              *)

Margin == 2
ProbeFrac == {0, 10, 18, 50, 90}
ProbeCellsX == (0 - Margin) .. (MAP_W - 1 + Margin)
ProbeCellsY == (0 - Margin) .. (MAP_H - 1 + Margin)
ProbeX == { c * PosScale + f : c \in ProbeCellsX, f \in ProbeFrac }
ProbeY == { c * PosScale + f : c \in ProbeCellsY, f \in ProbeFrac }

InitGrid == InitIdle /\ pc = "grid"

QueryCell ==
  /\ pc = "grid"
  /\ \E mx \in ProbeCellsX, my \in ProbeCellsY :
       call' = [op |-> "cell", mx |-> mx, my |-> my,
                wall |-> is_wall(mx, my), door |-> is_door(mx, my)]
  /\ pc' = "done"
  /\ UNCHANGED << poseVars, tickVars, renderVars >>

QueryCollides ==
  /\ pc = "grid"
  /\ \E x \in ProbeX, y \in ProbeY :
       call' = [op |-> "collides", x |-> x, y |-> y, res |-> collides(x, y)]
  /\ pc' = "done"
  /\ UNCHANGED << poseVars, tickVars, renderVars >>

NextGrid == QueryCell \/ QueryCollides

SpecGrid == InitGrid /\ [][NextGrid]_vars

\* The cell containing the point (x, y): floor of each coordinate
InBounds(mx, my) == mx >= 0 /\ my >= 0 /\ mx < MAP_W /\ my < MAP_H
CellKind(mx, my) ==
  IF ~InBounds(mx, my) THEN "Wall"
  ELSE IF Tile(mx, my) = "#" THEN "Wall"
  ELSE IF Tile(mx, my) = "D" THEN "Door"
  ELSE "Open"
KindAt(x, y) == CellKind(Floor(x, PosScale), Floor(y, PosScale))

\* C7: closed world: out of bounds is_wall is true and is_door false; in
\* bounds is_wall is true exactly for "#" and is_door exactly for "D", and no
\* cell is both a wall and a door.
C7_ClosedWorld ==
  call.op = "cell" =>
    /\ ~InBounds(call.mx, call.my) => (call.wall /\ ~call.door)
    /\ InBounds(call.mx, call.my) =>
         /\ call.wall <=> (Tile(call.mx, call.my) = "#")
         /\ call.door <=> (Tile(call.mx, call.my) = "D")
    /\ ~(call.wall /\ call.door)

C7_Witness ==
  /\ call.op = "cell"
  /\ call.mx = 33 /\ call.my = -1
  /\ call.wall /\ ~call.door

\* C3: collides(x, y) is true iff one of the four corners (x -+ RADIUS,
\* y -+ RADIUS) lies in a cell that is a Wall (out of bounds included) or a
\* Door, also when a corner coordinate is negative or outside the grid.
C3_CollidesIffCornerSolid ==
  call.op = "collides" =>
    (call.res <=>
       \E cx \in {call.x - RADIUS, call.x + RADIUS},
          cy \in {call.y - RADIUS, call.y + RADIUS} :
            KindAt(cx, cy) \in {"Wall", "Door"})

\* a corner with a coordinate in (-1, 0): int() names cell 0, the corner
\* lies in cell -1
C3_Witness ==
  /\ call.op = "collides"
  /\ call.x - RADIUS < 0 /\ call.x - RADIUS > -PosScale
  /\ call.y - RADIUS > PosScale /\ call.y + RADIUS < (MAP_H - 1) * PosScale
  /\ call.res

-----------------------------------------------------------------------------
(* SpecMove: try_move called repeatedly from the start position with       *)
(* targets around the current position                                     *)

MaxStep == 2
StepUnit == PosScale \div 5
StepSet == { k * StepUnit : k \in (0 - MaxStep) .. MaxStep }

InitMove == InitIdle /\ pc = "move"

TryMove ==
  /\ pc = "move"
  /\ \E sx \in StepSet, sy \in StepSet :
       LET nx == px + sx
           ny == py + sy
           r  == try_move(nx, ny, px, py)
       IN  /\ px' = r[1]
           /\ py' = r[2]
           /\ call' = [op |-> "try_move", nx |-> nx, ny |-> ny]
  /\ UNCHANGED << ang, pc, tickVars, renderVars >>

\* targets far from the current position: outside the grid on either side
\* and in other rooms of the map
FarCellsX == {-1, 28}
FarCellsY == {3, MAP_H}
FarX == { c * PosScale + PosScale \div 2 : c \in FarCellsX }
FarY == { c * PosScale + PosScale \div 2 : c \in FarCellsY }

TryMoveFar ==
  /\ pc = "move"
  /\ \E nx \in FarX, ny \in FarY :
       LET r == try_move(nx, ny, px, py)
       IN  /\ px' = r[1]
           /\ py' = r[2]
           /\ call' = [op |-> "try_move", nx |-> nx, ny |-> ny]
  /\ UNCHANGED << ang, pc, tickVars, renderVars >>

NextMove == TryMove \/ TryMoveFar

SpecMove == InitMove /\ [][NextMove]_vars

\* C4: sliding: when try_move(nx, ny) is called from (px, py) with the X
\* component blocked and the Y component clear, px is left unchanged and py
\* becomes ny.
C4_SlideAlongX ==
  [][(call'.op = "try_move" /\ collides(call'.nx, py)
                            /\ ~collides(px, call'.ny))
       => (px' = px /\ py' = call'.ny)]_vars

\* after a call whose X move was refused and whose Y move was committed
C4_Witness ==
  /\ call.op = "try_move"
  /\ px # call.nx /\ py = call.ny
  /\ collides(call.nx, py) /\ ~collides(px, py)

\* C13: in every state reached from (19.5, 6.5) by try_move calls with any
\* targets, collides(px, py) is false: no corner of the bounding box lies in
\* a Wall, Door or out-of-bounds cell, and the cell (int(px), int(py)) is an
\* in-bounds Open cell.
C13_NeverInsideSolid ==
  /\ ~collides(px, py)
  /\ \A cx \in {px - RADIUS, px + RADIUS}, cy \in {py - RADIUS, py + RADIUS} :
       KindAt(cx, cy) = "Open"
  /\ InBounds(PyInt(px, PosScale), PyInt(py, PosScale))
  /\ CellKind(PyInt(px, PosScale), PyInt(py, PosScale)) = "Open"

\* a call with a target outside the grid was refused on both axes
C13_Witness ==
  /\ call.op = "try_move"
  /\ call.nx < 0 /\ call.ny > MAP_H * PosScale
  /\ px # call.nx /\ py # call.ny
  /\ (px # START_PX \/ py # START_PY)
  /\ ~collides(px, py)

\* C15: try_move(nx, ny) from (px, py) gives px' = nx if collides(nx, py) is
\* false, else px; then py' = ny if collides(px', ny) is false, else py: the
\* Y test uses the updated X, so with X clear and (nx, ny) colliding Y is
\* not committed even if (px, ny) is clear.
C15_MoveXThenY ==
  [][call'.op = "try_move" =>
       /\ px' = (IF collides(call'.nx, py) THEN px ELSE call'.nx)
       /\ py' = (IF collides(px', call'.ny) THEN py ELSE call'.ny)
       /\ (~collides(call'.nx, py) /\ collides(call'.nx, call'.ny)
             /\ call'.ny # py) => py' = py]_vars

\* X was committed and Y refused, though Y is clear at an X one step back
C15_Witness ==
  /\ call.op = "try_move"
  /\ px = call.nx /\ py # call.ny
  /\ collides(px, call.ny)
  /\ \E sx \in StepSet : /\ ~collides(px - sx, py)
                         /\ ~collides(px - sx, call.ny)

-----------------------------------------------------------------------------
(* Raycast (DDA)                                                           *)
(*                                                                         *)
(* A ray direction component d is the integer d * DirScale.  The guard     *)
(* value 1e-9 that replaces a zero component is held as EPS, the smallest  *)
(* positive direction of this grid; with positions on the 1/PosScale grid  *)
(* the first crossing of that axis then lies DirScale / PosScale = 100     *)
(* units away or more, beyond the 65 units the other axis can accumulate   *)
(* in MAX_STEPS steps, as it does with 1e-9.                               *)
(* side_dist_x is held as sdx with side_dist_x = sdx * delta_dist_x /      *)
(* PosScale, delta_dist_x = DirScale / |ray_dx|; side_dist_x < side_dist_y *)
(* is then sdx * |ray_dy| < sdy * |ray_dx|.                                *)

DirScale == 10000
EPS == 1
\* a loop shorter than the longest open run of the map
MAX_STEPS_short == MAP_H \div 2
MAX_STEPS == 64
NO_HIT == << 1000000000, 1 >>
DirPerPos == DirScale \div PosScale

\* the for loop of cast_ray run for cap iterations, from its iteration k
\* (0-based) on; the result is the state of the loop variables when the loop
\* is left
RECURSIVE dda_cap(_, _, _, _, _, _, _, _, _, _, _)
dda_cap(cap, k, map_x, map_y, sdx, sdy, side, adx, ady, step_x, step_y) ==
  IF k = cap
    THEN [hit |-> FALSE, hit_tile |-> "#", side |-> side,
          map_x |-> map_x, map_y |-> map_y, iters |-> k]
    ELSE
      LET goX == sdx * ady < sdy * adx
          mx  == IF goX THEN map_x + step_x ELSE map_x
          my  == IF goX THEN map_y ELSE map_y + step_y
          sx  == IF goX THEN sdx + PosScale ELSE sdx
          sy  == IF goX THEN sdy ELSE sdy + PosScale
          sd  == IF goX THEN 0 ELSE 1
      IN  IF mx < 0 \/ my < 0 \/ mx >= MAP_W \/ my >= MAP_H
            THEN [hit |-> TRUE, hit_tile |-> "#", side |-> sd,
                  map_x |-> mx, map_y |-> my, iters |-> k + 1]
          ELSE IF Tile(mx, my) = "#" \/ Tile(mx, my) = "D"
            THEN [hit |-> TRUE, hit_tile |-> Tile(mx, my), side |-> sd,
                  map_x |-> mx, map_y |-> my, iters |-> k + 1]
          ELSE dda_cap(cap, k + 1, mx, my, sx, sy, sd, adx, ady,
                       step_x, step_y)

\* the loop as written, for _ in range(64)
dda(k, map_x, map_y, sdx, sdy, side, adx, ady, step_x, step_y) ==
  dda_cap(MAX_STEPS, k, map_x, map_y, sdx, sdy, side, adx, ady,
          step_x, step_y)

\* the distance measured to the far face of the hit cell
perp_dist_far(c, p, step, ray_d) ==
  LET num == c * PosScale - p + ((1 + step) * PosScale) \div 2
  IN  IF ray_d < 0 THEN << (0 - num) * DirPerPos, 0 - ray_d >>
                   ELSE << num * DirPerPos, ray_d >>

\* the distance divided by the magnitude of the direction component
perp_dist_abs(c, p, step, ray_d) ==
  LET num == c * PosScale - p + ((1 - step) * PosScale) \div 2
  IN  << num * DirPerPos, Abs(ray_d) >>

\* the distance (c - p + (1 - step) * 0.5) / ray_d as << num, den >>, den > 0:
\* (n / PosScale) / (ray_d / DirScale) = n * (DirScale / PosScale) / ray_d
perp_dist(c, p, step, ray_d) ==
  LET num == c * PosScale - p + ((1 - step) * PosScale) \div 2
  IN  IF ray_d < 0 THEN << (0 - num) * DirPerPos, 0 - ray_d >>
                   ELSE << num * DirPerPos, ray_d >>

\* the loop left without a hit treated as a hit of the last cell stepped to
cast_ray_cap_lastcell(cap, cx, cy, rdx, rdy) ==
  LET map_x == PyInt(cx, PosScale)
      map_y == PyInt(cy, PosScale)
      ray_dx == IF rdx = 0 THEN EPS ELSE rdx
      ray_dy == IF rdy = 0 THEN EPS ELSE rdy
      step_x == IF ray_dx < 0 THEN -1 ELSE 1
      step_y == IF ray_dy < 0 THEN -1 ELSE 1
      sdx == IF ray_dx < 0 THEN cx - map_x * PosScale
                           ELSE (map_x + 1) * PosScale - cx
      sdy == IF ray_dy < 0 THEN cy - map_y * PosScale
                           ELSE (map_y + 1) * PosScale - cy
      r == dda_cap(cap, 0, map_x, map_y, sdx, sdy, 0, Abs(ray_dx),
                   Abs(ray_dy), step_x, step_y)
      d == IF r.side = 0 THEN perp_dist(r.map_x, cx, step_x, ray_dx)
                         ELSE perp_dist(r.map_y, cy, step_y, ray_dy)
  IN  [dist |-> d,
       hit_tile |-> IF r.hit THEN r.hit_tile ELSE TileWrap(r.map_x, r.map_y),
       hit |-> r.hit, iters |-> r.iters, map_x |-> r.map_x,
       map_y |-> r.map_y]

\* cast_ray(ray_dx, ray_dy) with the loop run for cap iterations, called with
\* the globals px = cx, py = cy; map_x, map_y are the last cell stepped to
cast_ray_cap(cap, cx, cy, rdx, rdy) ==
  LET map_x == PyInt(cx, PosScale)
      map_y == PyInt(cy, PosScale)
      ray_dx == IF rdx = 0 THEN EPS ELSE rdx
      ray_dy == IF rdy = 0 THEN EPS ELSE rdy
      step_x == IF ray_dx < 0 THEN -1 ELSE 1
      step_y == IF ray_dy < 0 THEN -1 ELSE 1
      sdx == IF ray_dx < 0 THEN cx - map_x * PosScale
                           ELSE (map_x + 1) * PosScale - cx
      sdy == IF ray_dy < 0 THEN cy - map_y * PosScale
                           ELSE (map_y + 1) * PosScale - cy
      r == dda_cap(cap, 0, map_x, map_y, sdx, sdy, 0, Abs(ray_dx),
                   Abs(ray_dy), step_x, step_y)
      d == IF r.side = 0 THEN perp_dist(r.map_x, cx, step_x, ray_dx)
                         ELSE perp_dist(r.map_y, cy, step_y, ray_dy)
  IN  IF ~r.hit
        THEN [dist |-> NO_HIT, hit_tile |-> "#", hit |-> FALSE,
              iters |-> r.iters, map_x |-> r.map_x, map_y |-> r.map_y]
        ELSE [dist |-> d, hit_tile |-> r.hit_tile, hit |-> TRUE,
              iters |-> r.iters, map_x |-> r.map_x, map_y |-> r.map_y]

\* cast_ray(ray_dx, ray_dy) as written, called with the globals px = cx,
\* py = cy
cast_ray(cx, cy, rdx, rdy) == cast_ray_cap(MAX_STEPS, cx, cy, rdx, rdy)

-----------------------------------------------------------------------------
(* SpecRay: cast_ray applied once from a camera position anywhere in the   *)
(* grid, in any direction of a small grid of directions                    *)

MaxDir == 2
DirSet == { k * DirScale : k \in (0 - MaxDir) .. MaxDir }
CamFrac == {0, 1, 50, 99}
CamX == { c * PosScale + f : c \in 0 .. (MAP_W - 1), f \in CamFrac }
CamY == { c * PosScale + f : c \in 0 .. (MAP_H - 1), f \in CamFrac }

InitRay ==
  /\ px \in CamX /\ py \in CamY /\ ang = START_ANG
  /\ InitRest
  /\ pc = "ray"

CastRay ==
  /\ pc = "ray"
  /\ \E rdx \in DirSet, rdy \in DirSet :
       LET r == cast_ray(px, py, rdx, rdy)
       IN  call' = [op |-> "cast_ray", ray_dx |-> rdx, ray_dy |-> rdy,
                    dist |-> r.dist, hit_tile |-> r.hit_tile,
                    hit |-> r.hit, iters |-> r.iters]
  /\ pc' = "done"
  /\ UNCHANGED << poseVars, tickVars, renderVars >>

NextRay == CastRay

SpecRay == InitRay /\ [][NextRay]_vars

\* the camera is strictly inside an Open cell / in an Open cell
CamCellX == PyInt(px, PosScale)
CamCellY == PyInt(py, PosScale)
CamInOpen == CellKind(CamCellX, CamCellY) = "Open"
CamStrictlyInOpen ==
  /\ CamInOpen
  /\ px > CamCellX * PosScale /\ py > CamCellY * PosScale

\* C2: from a camera strictly inside an Open cell, in any direction,
\* cast_ray ends within 64 DDA iterations and returns a distance >= 0 and a
\* hit kind "#" or "D".
C2_RayTerminates ==
  (call.op = "cast_ray" /\ CamStrictlyInOpen) =>
    /\ call.iters <= 64
    /\ call.dist[1] >= 0 /\ call.dist[2] > 0
    /\ call.hit_tile \in {"#", "D"}

\* a ray with two negative components has hit after several steps
C2_Witness ==
  /\ call.op = "cast_ray" /\ CamStrictlyInOpen
  /\ call.ray_dx < 0 /\ call.ray_dy < 0
  /\ call.hit /\ call.iters > 3
  /\ call.dist[1] > 0

\* the axis distance from the camera to the near face of the first solid
\* cell in the cardinal direction (sx, sy), in 1/PosScale units
Solid(mx, my) == CellKind(mx, my) \in {"Wall", "Door"}
AxisDistance(sx, sy) ==
  IF sx = 1 THEN
    LET k == CHOOSE m \in (CamCellX + 1) .. MAP_W :
               Solid(m, CamCellY) /\
               \A j \in (CamCellX + 1) .. (m - 1) : ~Solid(j, CamCellY)
    IN  k * PosScale - px
  ELSE IF sx = -1 THEN
    LET k == CHOOSE m \in -1 .. (CamCellX - 1) :
               Solid(m, CamCellY) /\
               \A j \in (m + 1) .. (CamCellX - 1) : ~Solid(j, CamCellY)
    IN  px - (k + 1) * PosScale
  ELSE IF sy = 1 THEN
    LET k == CHOOSE m \in (CamCellY + 1) .. MAP_H :
               Solid(CamCellX, m) /\
               \A j \in (CamCellY + 1) .. (m - 1) : ~Solid(CamCellX, j)
    IN  k * PosScale - py
  ELSE
    LET k == CHOOSE m \in -1 .. (CamCellY - 1) :
               Solid(CamCellX, m) /\
               \A j \in (m + 1) .. (CamCellY - 1) : ~Solid(CamCellX, j)
    IN  py - (k + 1) * PosScale

Cardinal(dx, dy) ==
  \/ (dx \in {DirScale, 0 - DirScale} /\ dy = 0)
  \/ (dx = 0 /\ dy \in {DirScale, 0 - DirScale})

C17_SentinelNeverReturned ==
  (call.op = "cast_ray") =>
    /\ call.hit
    /\ call.dist # NO_HIT
    /\ call.iters <= MAP_W + MAP_H - 1
    /\ MAP_W + MAP_H - 1 < MAX_STEPS

\* a slanted ray that crossed the long corridor before it hit
C17_Witness ==
  /\ call.op = "cast_ray"
  /\ call.ray_dx # 0 /\ call.ray_dy # 0
  /\ call.hit /\ call.iters >= MAP_H - 2
  /\ call.dist # NO_HIT

-----------------------------------------------------------------------------
(* SpecCap: cast_ray with its loop run for a few iterations only, and for  *)
(* the 64 of the program, from the centre of any cell                      *)

MaxCap == 3
CapSet == (1 .. MaxCap) \cup {MAX_STEPS}
CentreX == { c * PosScale + PosScale \div 2 : c \in 0 .. (MAP_W - 1) }
CentreY == { c * PosScale + PosScale \div 2 : c \in 0 .. (MAP_H - 1) }

InitCap ==
  /\ px \in CentreX /\ py \in CentreY /\ ang = START_ANG
  /\ InitRest
  /\ pc = "raycap"

CastRayCap ==
  /\ pc = "raycap"
  /\ \E cap \in CapSet, rdx \in DirSet, rdy \in DirSet :
       LET r == cast_ray_cap(cap, px, py, rdx, rdy)
       IN  call' = [op |-> "cast_ray_cap", cap |-> cap, ray_dx |-> rdx,
                    ray_dy |-> rdy, dist |-> r.dist,
                    hit_tile |-> r.hit_tile, hit |-> r.hit,
                    iters |-> r.iters, map_x |-> r.map_x,
                    map_y |-> r.map_y]
  /\ pc' = "done"
  /\ UNCHANGED << poseVars, tickVars, renderVars >>

NextCap == CastRayCap

SpecCap == InitCap /\ [][NextCap]_vars

\* the loop ran all its iterations and the last cell stepped to is an
\* in-bounds Open cell (an earlier Wall, Door or out-of-bounds cell would
\* have left the loop)
CapExhausted ==
  /\ call.op = "cast_ray_cap"
  /\ call.iters = call.cap
  /\ InBounds(call.map_x, call.map_y)
  /\ CellKind(call.map_x, call.map_y) = "Open"

\* C16: if cast_ray completes all the iterations of its loop without
\* stepping to a Wall, Door or out-of-bounds cell, it returns the sentinel
\* distance 1e9 with hit kind '#', not an Open hit.
C16_CapExhaustedIsFarWall ==
  CapExhausted => (call.dist = NO_HIT /\ call.hit_tile = "#")

\* a ray that used up a shortened loop inside a room
C16_Witness ==
  /\ CapExhausted /\ call.cap = MaxCap
  /\ ~call.hit
  /\ call.dist = NO_HIT /\ call.hit_tile = "#"

-----------------------------------------------------------------------------
(* Distance shading palette *)

CEILING == << 235, 235, 235 >>
FLOOR == << 70, 40, 20 >>
WALL == << 220, 200, 160 >>
DOOR == << 200, 40, 40 >>

SHADE_LEVELS == 16
MAX_SHADE_DIST == 6
MIN_DIST == << 1, 20 >>

\* int(c * factor), factor = MIN_FACTOR + (i / (SHADE_LEVELS - 1)) * (1.0 -
\* MIN_FACTOR) with MIN_FACTOR = 0.25, in exact arithmetic:
\* factor = (SHADE_LEVELS - 1 + 3 * i) / (4 * (SHADE_LEVELS - 1))
shade(base, i) ==
  LET num == SHADE_LEVELS - 1 + 3 * i
      den == 4 * (SHADE_LEVELS - 1)
  IN  << PyInt(base[1] * num, den), PyInt(base[2] * num, den),
         PyInt(base[3] * num, den) >>

WALL_SHADES == [i \in 1 .. SHADE_LEVELS |-> shade(WALL, i - 1)]
DOOR_SHADES == [i \in 1 .. SHADE_LEVELS |-> shade(DOOR, i - 1)]

-----------------------------------------------------------------------------
(* Render: the body of the column loop after cast_ray *)

\* if dist < 0.05: dist = 0.05
\* (n / d < 1 / 20 iff 20 * n < d iff n <= (d - 1) \div 20, for d > 0)
clamp_dist(dist) ==
  IF dist[1] <= (dist[2] - 1) \div MIN_DIST[2] THEN MIN_DIST ELSE dist

\* Projection plane distance in pixels, (W / 2.0) / math.tan(FOV / 2.0) =
\* 277.128..., held in 1/ProjScale pixels
ProjScale == 100
PROJ_PLANE == 27713

\* line_h = int((1.0 / dist) * PROJ_PLANE) for dist > 0
\* (floor(a / (n * s)) = floor(floor(a / n) / s) for positive integers)
line_height(dist) == ((dist[2] * PROJ_PLANE) \div dist[1]) \div ProjScale

\* the rows of the slice with the lower end clipped to H instead of H - 1
column_span_clip_h(line_h) ==
  LET half == line_h \div 2
      y0 == IF HALF_H - half < 0 THEN 0 ELSE HALF_H - half
      y1 == IF HALF_H + half > H THEN H ELSE HALF_H + half
  IN  [y0 |-> y0, h |-> y1 - y0 + 1]

\* y0 = HALF_H - (line_h >> 1), clipped to 0; y1 = HALF_H + (line_h >> 1),
\* clipped to H - 1; h = y1 - y0 + 1
column_span(line_h) ==
  LET half == line_h \div 2
      y0 == IF HALF_H - half < 0 THEN 0 ELSE HALF_H - half
      y1 == IF HALF_H + half >= H THEN H - 1 ELSE HALF_H + half
  IN  [y0 |-> y0, h |-> y1 - y0 + 1]

\* the shade index with the product rounded to the nearest integer
shade_index_round(dist) ==
  IF dist[1] > MAX_SHADE_DIST * dist[2]
    THEN 0
    ELSE RoundDiv((MAX_SHADE_DIST * dist[2] - dist[1]) * (SHADE_LEVELS - 1),
                  MAX_SHADE_DIST * dist[2])

\* t = dist / MAX_SHADE_DIST; if t > 1.0: t = 1.0;
\* shade_idx = int((1.0 - t) * (SHADE_LEVELS - 1))
shade_index(dist) ==
  IF dist[1] > MAX_SHADE_DIST * dist[2]
    THEN 0
    ELSE PyInt((MAX_SHADE_DIST * dist[2] - dist[1]) * (SHADE_LEVELS - 1),
               MAX_SHADE_DIST * dist[2])

\* the palette entry for what was hit
shade_color(hit_tile, shade_idx) ==
  IF hit_tile = "D" THEN DOOR_SHADES[shade_idx + 1]
                    ELSE WALL_SHADES[shade_idx + 1]

-----------------------------------------------------------------------------
(* SpecShade: the projection and shading of one column for a cast_ray     *)
(* result                                                                  *)

MaxDist == 700
DistSet == { << n, PosScale >> : n \in 0 .. MaxDist } \cup { NO_HIT }

InitShade ==
  /\ px = START_PX /\ py = START_PY /\ ang = START_ANG
  /\ turn = 0 /\ fwd = 0 /\ strafe = 0 /\ dt = 0 /\ need_render = FALSE
  /\ tick = 0 /\ renders = 0 /\ seen = << >> /\ pose0 = << >>
  /\ cols = << >> /\ col_i = 0 /\ run = NoRun /\ calls = << >>
  /\ \E d \in DistSet, t \in {"#", "D"} :
       call = [op |-> "cast_result", dist |-> d, hit_tile |-> t]
  /\ pc = "shade"

ShadeColumn ==
  /\ pc = "shade"
  /\ LET dist == clamp_dist(call.dist)
         line_h == line_height(dist)
         span == column_span(line_h)
         idx  == shade_index(dist)
     IN  call' = [op |-> "shade", dist |-> dist, hit_tile |-> call.hit_tile,
                  line_h |-> line_h, y0 |-> span.y0, h |-> span.h,
                  shade_idx |-> idx,
                  col |-> shade_color(call.hit_tile, idx)]
  /\ pc' = "done"
  /\ UNCHANGED << poseVars, tickVars, renderVars >>

NextShade == ShadeColumn

SpecShade == InitShade /\ [][NextShade]_vars

\* (1 - t) * (SHADE_LEVELS - 1) as << num, den >> for t = min(dist /
\* MAX_SHADE_DIST, 1)
ShadeValue(dist) ==
  IF dist[1] > MAX_SHADE_DIST * dist[2]
    THEN << 0, 1 >>
    ELSE << (MAX_SHADE_DIST * dist[2] - dist[1]) * (SHADE_LEVELS - 1),
            MAX_SHADE_DIST * dist[2] >>

\* k is the integer nearest to v = << num, den >> (either one at a half)
IsNearest(k, v) == 2 * Abs(k * v[2] - v[1]) <= v[2]

\* C10 as stated: the shade index is round((1 - t) * (SHADE_LEVELS - 1)).
C10_ShadeIndexRounded ==
  call.op = "shade" => IsNearest(call.shade_idx, ShadeValue(call.dist))

\* C10 as amended: the shade index is (1 - t) * (SHADE_LEVELS - 1) truncated
\* to an integer: idx <= (1 - t) * (SHADE_LEVELS - 1) < idx + 1.
C10_ShadeIndexTruncated ==
  call.op = "shade" =>
    LET v == ShadeValue(call.dist)
    IN  /\ call.shade_idx \in 0 .. (SHADE_LEVELS - 1)
        /\ call.shade_idx * v[2] <= v[1]
        /\ v[1] < (call.shade_idx + 1) * v[2]

\* the nearest distance, clamped to 0.05: 14.875 is truncated to 14
C10_Witness ==
  /\ call.op = "shade"
  /\ call.dist = MIN_DIST
  /\ call.shade_idx = SHADE_LEVELS - 2

\* the projected wall height int((1 / dist) * PROJ_PLANE) of a clamped
\* distance, stated by its bounds: k <= PROJ_PLANE / dist < k + 1
IsProjectedHeight(k, dist) ==
  IF dist = NO_HIT
    THEN k = 0
    ELSE /\ k >= 0
         /\ k * dist[1] * ProjScale <= dist[2] * PROJ_PLANE
         /\ dist[2] * PROJ_PLANE < (k + 1) * dist[1] * ProjScale

\* C11 as stated: the height of the column's rectangle is the projected wall
\* height int((1 / dist) * PROJ_PLANE) of the clamped distance, the span
\* being centred on row HALF_H and clipped to the rows [0, H).
C11_HeightIsProjected ==
  call.op = "shade" =>
    \E k \in 0 .. (PROJ_PLANE \div 5 + 1) :
      /\ IsProjectedHeight(k, call.dist)
      /\ call.y0 = (IF HALF_H - (k \div 2) < 0 THEN 0 ELSE HALF_H - (k \div 2))
      /\ call.h = (IF call.y0 + k > H THEN H - call.y0 ELSE k)

\* C11 as amended: the rectangle covers the rows HALF_H - (line_h >> 1) ..
\* HALF_H + (line_h >> 1), both included, that lie in [0, H), where line_h
\* is int((1 / dist) * PROJ_PLANE) for the clamped distance: 2 * (line_h >>
\* 1) + 1 rows when none is clipped, which is line_h for an odd line_h and
\* line_h + 1 for an even one.
C11_HeightIsInclusiveSpan ==
  call.op = "shade" =>
    /\ IsProjectedHeight(call.line_h, call.dist)
    /\ call.h >= 1
    /\ call.y0 .. (call.y0 + call.h - 1) =
         { r \in 0 .. (H - 1) :
             /\ r >= HALF_H - (call.line_h \div 2)
             /\ r <= HALF_H + (call.line_h \div 2) }

\* an even projected height below the screen height: one row more is drawn
C11_Witness ==
  /\ call.op = "shade"
  /\ call.line_h % 2 = 0 /\ call.line_h > 0 /\ call.line_h < H - 1
  /\ call.h = call.line_h + 1

-----------------------------------------------------------------------------
(* Render: the run merging of the column loop                              *)
(* A fill_rect call is the record [x, y, w, h, col]; a slice is the        *)
(* (col, y0, h) computed for one column; run is NoRun while run_col is     *)
(* None.                                                                   *)

Rect(x, y, w, h, col) == [x |-> x, y |-> y, w |-> w, h |-> h, col |-> col]

\* the floor filled before the ceiling
render_begin_floor_first == << Rect(0, HALF_H, W, H - HALF_H, FLOOR),
                               Rect(0, 0, W, HALF_H, CEILING) >>

\* render(), lines 216-226: the ceiling and the floor, no run pending
render_begin == << Rect(0, 0, W, HALF_H, CEILING),
                   Rect(0, HALF_H, W, H - HALF_H, FLOOR) >>

\* every column flushed on its own, no run ever extended
merge_step_nomerge(r, cs, i, sl) ==
  LET fresh == [col |-> sl.col, x |-> i * COL_W, w |-> COL_W, y0 |-> sl.y0,
                h |-> sl.h]
  IN  IF r = NoRun
        THEN << fresh, cs >>
        ELSE << fresh, Append(cs, Rect(r.x, r.y0, r.w, r.h, r.col)) >>

\* lines 260-277 for column i with slice sl: the new << run, calls >>
merge_step(r, cs, i, sl) ==
  LET x == i * COL_W
      fresh == [col |-> sl.col, x |-> x, w |-> COL_W, y0 |-> sl.y0,
                h |-> sl.h]
  IN  IF r = NoRun
        THEN << fresh, cs >>
      ELSE IF sl.col = r.col /\ sl.y0 = r.y0 /\ sl.h = r.h
              /\ x = r.x + r.w
        THEN << [r EXCEPT !.w = r.w + COL_W], cs >>
      ELSE << fresh, Append(cs, Rect(r.x, r.y0, r.w, r.h, r.col)) >>

\* the pending run dropped at the end of the loop
final_flush_none(r, cs) == cs

\* lines 279-280: the calls after the pending run is flushed
final_flush(r, cs) ==
  IF r # NoRun THEN Append(cs, Rect(r.x, r.y0, r.w, r.h, r.col)) ELSE cs

RenderBegin ==
  /\ pc = "render_begin"
  /\ calls' = render_begin
  /\ run' = NoRun
  /\ col_i' = 0
  /\ pc' = "render_loop"
  /\ UNCHANGED << poseVars, tickVars, call, cols >>

RenderColumn ==
  /\ pc = "render_loop"
  /\ col_i < Len(cols)
  /\ LET m == merge_step(run, calls, col_i, cols[col_i + 1])
     IN  run' = m[1] /\ calls' = m[2]
  /\ col_i' = col_i + 1
  /\ UNCHANGED << poseVars, tickVars, call, cols, pc >>

RenderFlush ==
  /\ pc = "render_loop"
  /\ col_i = Len(cols)
  /\ calls' = final_flush(run, calls)
  /\ pc' = "done"
  /\ UNCHANGED << poseVars, tickVars, call, cols, col_i, run >>

-----------------------------------------------------------------------------
(* SpecMerge: the render pass over any sequence of column slices           *)

MaxCols == 4
MaxShade == 1
MaxY0 == 1
MaxH == 2
SliceSet ==
  { [col |-> shade_color(t, i), y0 |-> y, h |-> h] :
      t \in {"#"}, i \in 0 .. MaxShade, y \in 0 .. MaxY0, h \in 1 .. MaxH }
SliceSeqs == UNION { [1 .. n -> SliceSet] : n \in 1 .. MaxCols }

InitMerge ==
  /\ px = START_PX /\ py = START_PY /\ ang = START_ANG
  /\ turn = 0 /\ fwd = 0 /\ strafe = 0 /\ dt = 0 /\ need_render = FALSE
  /\ tick = 0 /\ renders = 0 /\ seen = << >> /\ pose0 = << >>
  /\ call = NoCall
  /\ cols \in SliceSeqs
  /\ col_i = 0 /\ run = NoRun /\ calls = << >>
  /\ pc = "render_begin"

NextMerge == RenderBegin \/ RenderColumn \/ RenderFlush

SpecMerge == InitMerge /\ [][NextMerge]_vars

\* the (pixel, colour) pairs a fill_rect call paints
Painted(r) ==
  { << x, y, r.col >> : x \in r.x .. (r.x + r.w - 1),
                        y \in r.y .. (r.y + r.h - 1) }

\* the wall rectangles of the pass: the calls after the ceiling and floor
WallCalls == SubSeq(calls, Len(render_begin) + 1, Len(calls))

MergedPaint == UNION { Painted(WallCalls[k]) : k \in 1 .. Len(WallCalls) }

ColumnPaint ==
  UNION { Painted(Rect((k - 1) * COL_W, cols[k].y0, COL_W, cols[k].h,
                       cols[k].col)) : k \in 1 .. Len(cols) }

\* C1: run merging is loss-free: when the pass is over, the (pixel, colour)
\* pairs painted by the flushed runs are those painted by drawing every
\* column's own COL_W-wide rectangle.
C1_MergeLossFree ==
  (pc = "done" /\ Len(cols) > 0) => MergedPaint = ColumnPaint

\* a pass that merged two equal columns and flushed a different last one
C1_Witness ==
  /\ pc = "done" /\ Len(cols) >= 3
  /\ cols[1] = cols[2] /\ cols[2] # cols[3]
  /\ Len(WallCalls) < Len(cols) /\ Len(WallCalls) >= 2
  /\ MergedPaint = ColumnPaint

\* the places where two adjacent columns differ in (colour, y0, h)
ColumnBreaks == { k \in 1 .. Len(cols) - 1 : cols[k] # cols[k + 1] }

\* C14: when a render pass is over, the number of wall fill_rect calls is
\* the number of maximal groups of consecutive columns with identical
\* (colour, y0, h); any two runs flushed one after the other differ in
\* colour, y0 or h; and the count is between 1 and the number of columns.
C14_OneCallPerGroup ==
  (pc = "done") =>
    /\ Len(WallCalls) = Cardinality(ColumnBreaks) + 1
    /\ \A k \in 1 .. Len(WallCalls) - 1 :
         \/ WallCalls[k].col # WallCalls[k + 1].col
         \/ WallCalls[k].y # WallCalls[k + 1].y
         \/ WallCalls[k].h # WallCalls[k + 1].h
    /\ Len(WallCalls) >= 1
    /\ Len(WallCalls) <= Len(cols)

\* a pass with two groups: the first of one column, the second of three
C14_Witness ==
  /\ pc = "done" /\ Len(cols) = 4
  /\ cols[1] # cols[2] /\ cols[2] = cols[3] /\ cols[3] = cols[4]
  /\ Len(WallCalls) = 2
  /\ WallCalls[2].w = 3 * COL_W

-----------------------------------------------------------------------------
(* SpecFrame: one whole render pass of RENDER_W columns from a pose, with  *)
(* cast_ray's own results or with results given from outside               *)

\* ray_dx = ca * rsin - sa * rcos and ray_dy = sa * rsin + ca * rcos for
\* column i at orientation a, in 1/DirScale
ray_dx_of(a, i) ==
  RoundDiv(COS[a + 1] * RAY_SIN[i + 1] - SIN[a + 1] * RAY_COS[i + 1],
           (TrigScale * TrigScale) \div DirScale)
ray_dy_of(a, i) ==
  RoundDiv(SIN[a + 1] * RAY_SIN[i + 1] + COS[a + 1] * RAY_COS[i + 1],
           (TrigScale * TrigScale) \div DirScale)

\* what cast_ray hands to column i: its own result, or a hit at distance 0,
\* or the no-hit sentinel, or these two in turn
FrameResults == {"cast", "near", "sentinel", "alternate"}
cast_result(results, i, cx, cy, a) ==
  IF results = "cast"
    THEN LET r == cast_ray(cx, cy, ray_dx_of(a, i), ray_dy_of(a, i))
         IN  [dist |-> r.dist, hit_tile |-> r.hit_tile]
  ELSE IF results = "near" \/ (results = "alternate" /\ i % 2 = 0)
    THEN [dist |-> << 0, 1 >>, hit_tile |-> "D"]
  ELSE [dist |-> NO_HIT, hit_tile |-> "#"]

\* lines 235-256: the slice (col, y0, h) of a column from a cast_ray result
column_slice(res) ==
  LET dist == clamp_dist(res.dist)
      span == column_span(line_height(dist))
  IN  [col |-> shade_color(res.hit_tile, shade_index(dist)),
       y0 |-> span.y0, h |-> span.h]

\* the start, a room corner, the cell before the door, a border wall cell
FramePos ==
  { << START_PX, START_PY >>,
    << PosScale + RADIUS, 3 * PosScale + RADIUS >>,
    << 33 * PosScale + PosScale \div 2, 17 * PosScale - RADIUS - 1 >>,
    << 0, 0 >> }
MaxAngs == 8
FrameAng == { (k * 360) \div MaxAngs : k \in 0 .. (MaxAngs - 1) }

InitFrame ==
  /\ \E p \in FramePos : px = p[1] /\ py = p[2]
  /\ ang \in FrameAng
  /\ turn = 0 /\ fwd = 0 /\ strafe = 0 /\ dt = 0 /\ need_render = FALSE
  /\ tick = 0 /\ renders = 0 /\ seen = << >> /\ pose0 = << >>
  /\ \E m \in FrameResults : call = [op |-> "render", results |-> m]
  /\ cols = << >> /\ col_i = 0 /\ run = NoRun /\ calls = << >>
  /\ pc = "frame_begin"

FrameBegin ==
  /\ pc = "frame_begin"
  /\ calls' = render_begin
  /\ run' = NoRun
  /\ col_i' = 0
  /\ pc' = "frame_loop"
  /\ UNCHANGED << poseVars, tickVars, call, cols >>

FrameColumn ==
  /\ pc = "frame_loop"
  /\ col_i < RENDER_W
  /\ LET sl == column_slice(cast_result(call.results, col_i, px, py, ang))
         m  == merge_step(run, calls, col_i, sl)
     IN  /\ cols' = Append(cols, sl)
         /\ run' = m[1]
         /\ calls' = m[2]
  /\ col_i' = col_i + 1
  /\ UNCHANGED << poseVars, tickVars, call, pc >>

FrameFlush ==
  /\ pc = "frame_loop"
  /\ col_i = RENDER_W
  /\ calls' = final_flush(run, calls)
  /\ pc' = "done"
  /\ UNCHANGED << poseVars, tickVars, call, cols, col_i, run >>

NextFrame == FrameBegin \/ FrameColumn \/ FrameFlush

SpecFrame == InitFrame /\ [][NextFrame]_vars

InScreen(r) ==
  /\ 0 <= r.x /\ r.x + r.w <= W
  /\ 0 <= r.y /\ r.y + r.h <= H
  /\ r.w >= COL_W /\ r.h >= 1

\* C18: every rectangle render() passes to fill_rect lies inside the screen,
\* for every pose and every cast_ray result (distances below 0.05 and the
\* 1e9 sentinel included): 0 <= x, x + width <= W, 0 <= y, y + height <= H,
\* width >= COL_W and height >= 1.
C18_RectanglesInScreen ==
  \A k \in 1 .. Len(calls) : InScreen(calls[k])

\* a finished pass of RENDER_W one-column runs, full-height for the hits at
\* distance 0 and one row high for the sentinel, the last at the right edge
C18_Witness ==
  /\ pc = "done" /\ call.op = "render" /\ call.results = "alternate"
  /\ Len(WallCalls) = RENDER_W
  /\ WallCalls[1].h = H /\ WallCalls[1].y = 0
  /\ WallCalls[2].h = 1 /\ WallCalls[2].y = HALF_H
  /\ WallCalls[RENDER_W].x + WallCalls[RENDER_W].w = W
  /\ \A k \in 1 .. Len(calls) : InScreen(calls[k])

-----------------------------------------------------------------------------
(* Spec: the main program: the startup render, then the loop               *)
(* poll keys -> update angle -> movement -> render if needed               *)

MaxTicks == 2
MaxDtSteps == 2
DtUnit == TimeScale \div 3
\* a frame that took 3 s: dt = now - last has no upper limit
StallDt == 3 * TimeScale
DtSet == { k * DtUnit : k \in 0 .. MaxDtSteps } \cup {StallDt}

Pose == << px, py, ang >>

Key(b) == IF b THEN 1 ELSE 0

\* int(ang + turn * TURN_SPEED * dt) % 360 with C's remainder
turn_angle_truncmod(a, t, d) ==
  TruncMod(PyInt(a * TimeScale + t * TURN_SPEED * d, TimeScale), 360)

\* int(ang + turn * TURN_SPEED * dt) % 360
turn_angle(a, t, d) ==
  PyMod(PyInt(a * TimeScale + t * TURN_SPEED * d, TimeScale), 360)

\* the orientation advanced by TURN_SPEED * dt whatever the turn intent
update_angle_always(a, t, d) == turn_angle(a, 1, d)

\* if turn != 0.0: ang = int(ang + turn * TURN_SPEED * dt) % 360
update_angle(a, t, d) == IF t # 0 THEN turn_angle(a, t, d) ELSE a

\* the target << nx, ny >> of the movement step
move_target(x, y, a, f, s, d) ==
  LET ca == COS[a + 1]
      sa == SIN[a + 1]
      fwd_x == -sa
      fwd_y == ca
      right_x == ca
      right_y == sa
      den == TrigScale * TimeScale
  IN  << x + RoundDiv((f * fwd_x + s * right_x) * MOVE_SPEED * d, den),
         y + RoundDiv((f * fwd_y + s * right_y) * MOVE_SPEED * d, den) >>

\* need_render set regardless of the intents
need_render_always(t, f, s) == TRUE

\* need_render = (turn != 0.0) or (fwd != 0.0) or (strafe != 0.0)
need_render_of(t, f, s) == t # 0 \/ f # 0 \/ s # 0

\* the loop body with the render statement placed before the movement
loop_order_render_first(p) ==
  CASE p = "startup" -> "poll"
    [] p = "poll"    -> "angle"
    [] p = "angle"   -> "render"
    [] p = "render"  -> "move"
    [] p = "move"    -> "poll"

\* the statement that follows statement p in program order
loop_order(p) ==
  CASE p = "startup" -> "poll"
    [] p = "poll"    -> "angle"
    [] p = "angle"   -> "move"
    [] p = "move"    -> "render"
    [] p = "render"  -> "poll"

Init == InitIdle /\ pc = "startup"

\* the forced initial render
StartupRender ==
  /\ pc = "startup"
  /\ seen' = Pose
  /\ renders' = renders + 1
  /\ pc' = loop_order(pc)
  /\ UNCHANGED << poseVars, turn, fwd, strafe, dt, need_render, tick,
                  pose0, call, renderVars >>

\* the clock read, the key polling and need_render
Poll ==
  /\ pc = "poll"
  /\ tick < MaxTicks
  /\ \E d \in DtSet :
     \E left, right, up, down, two, four, six, eight \in BOOLEAN :
       LET t == Key(left) - Key(right)
           f == Key(up \/ eight) - Key(down \/ two)
           s == Key(six) - Key(four)
       IN  /\ dt' = d
           /\ turn' = t
           /\ fwd' = f
           /\ strafe' = s
           /\ need_render' = need_render_of(t, f, s)
  /\ tick' = tick + 1
  /\ renders' = 0
  /\ pose0' = Pose
  /\ pc' = loop_order(pc)
  /\ UNCHANGED << poseVars, seen, call, renderVars >>

UpdateAngle ==
  /\ pc = "angle"
  /\ ang' = update_angle(ang, turn, dt)
  /\ pc' = loop_order(pc)
  /\ UNCHANGED << px, py, tickVars, call, renderVars >>

Movement ==
  /\ pc = "move"
  /\ IF fwd # 0 \/ strafe # 0
       THEN LET n == move_target(px, py, ang, fwd, strafe, dt)
                r == try_move(n[1], n[2], px, py)
            IN  /\ px' = r[1]
                /\ py' = r[2]
                /\ call' = [op |-> "try_move", nx |-> n[1], ny |-> n[2]]
       ELSE UNCHANGED << px, py, call >>
  /\ pc' = loop_order(pc)
  /\ UNCHANGED << ang, tickVars, renderVars >>

Render ==
  /\ pc = "render"
  /\ need_render
  /\ seen' = Pose
  /\ renders' = renders + 1
  /\ pc' = loop_order(pc)
  /\ UNCHANGED << poseVars, turn, fwd, strafe, dt, need_render, tick,
                  pose0, call, renderVars >>

SkipRender ==
  /\ pc = "render"
  /\ ~need_render
  /\ pc' = loop_order(pc)
  /\ UNCHANGED << poseVars, tickVars, call, renderVars >>

Next ==
  \/ StartupRender
  \/ Poll
  \/ UpdateAngle
  \/ Movement
  \/ Render
  \/ SkipRender

Spec == Init /\ [][Next]_vars


\* C5: after the startup render, a tick whose turn, forward/back and strafe
\* intents are all zero never invokes render().
C5_IdleTickNoRender ==
  (tick >= 1 /\ turn = 0 /\ fwd = 0 /\ strafe = 0) => renders = 0

\* an idle tick with time elapsed has run to its end
C5_Witness ==
  /\ tick >= 1 /\ pc = "poll"
  /\ turn = 0 /\ fwd = 0 /\ strafe = 0 /\ dt > 0
  /\ renders = 0

\* C6: a tick with a non-zero intent invokes render() exactly once, after
\* the orientation update and try_move of that tick, so the frame is drawn
\* from the pose as updated in the same tick; no tick renders twice.
C6_RenderOnceAfterUpdate ==
  /\ renders <= 1
  /\ (tick >= 1 /\ pc \in {"angle", "move", "render"}) => renders = 0
  /\ (tick >= 1 /\ pc = "poll" /\ (turn # 0 \/ fwd # 0 \/ strafe # 0)) =>
       (renders = 1 /\ seen = Pose)

\* a tick that turned and moved has rendered the new pose
C6_Witness ==
  /\ tick >= 1 /\ pc = "poll"
  /\ turn # 0 /\ fwd # 0
  /\ renders = 1 /\ seen = Pose
  /\ ang # START_ANG /\ py # START_PY

\* C8: in every reachable state the orientation is an integer in [0, 360),
\* a valid index of SIN and COS.
C8_AngleInRange == ang \in 0 .. 359

\* a right turn from 0 degrees has wrapped below zero
C8_Witness ==
  /\ tick = 1 /\ pc = "move"
  /\ turn = -1 /\ dt > 0
  /\ ang > 180

\* C12: render only if changed: after startup, a tick invokes render() only
\* if the pose at the end of its update differs from the pose at its start.
C12_RenderOnlyIfPoseChanged ==
  (tick >= 1 /\ renders >= 1) => Pose # pose0

\* the cells from a to b, both included, in either order
CellsBetween(a, b) == (IF a < b THEN a ELSE b) .. (IF a < b THEN b ELSE a)

\* C19: no tunnelling, for any elapsed time dt: within a tick the player
\* never crosses a solid cell: every cell between the position at the start
\* of the tick and the current one is Open, along X at the old Y and along Y
\* at the current X (the order in which try_move commits the two axes).
C19_NoTunnelling ==
  (pose0 # << >>) =>
    /\ \A c \in CellsBetween(PyInt(pose0[1], PosScale), PyInt(px, PosScale)) :
         CellKind(c, PyInt(pose0[2], PosScale)) = "Open"
    /\ \A r \in CellsBetween(PyInt(pose0[2], PosScale), PyInt(py, PosScale)) :
         CellKind(PyInt(px, PosScale), r) = "Open"

-----------------------------------------------------------------------------
(* SpecTurn: from any orientation, a tick with only KEY_LEFT held and then *)
(* a tick of the same dt with only KEY_RIGHT held                          *)

InitTurn ==
  /\ px = START_PX /\ py = START_PY
  /\ ang \in 0 .. 359
  /\ InitRest
  /\ pc = "turn_left"

\* one pass of the loop body with turn = 1.0: fwd and strafe are 0, so there
\* is no movement, and need_render is true, so render() reads the new pose
TurnLeftTick ==
  /\ pc = "turn_left"
  /\ \E d \in DtSet :
       /\ dt' = d
       /\ ang' = turn_angle(ang, 1, d)
  /\ turn' = 1
  /\ need_render' = need_render_of(1, 0, 0)
  /\ tick' = tick + 1
  /\ pose0' = Pose
  /\ seen' = << px, py, ang' >>
  /\ renders' = 1
  /\ pc' = "turn_right"
  /\ UNCHANGED << px, py, fwd, strafe, call, renderVars >>

\* the next tick, with turn = -1.0 and the dt of the tick before
TurnRightTick ==
  /\ pc = "turn_right"
  /\ ang' = turn_angle(ang, -1, dt)
  /\ turn' = -1
  /\ need_render' = need_render_of(-1, 0, 0)
  /\ tick' = tick + 1
  /\ seen' = << px, py, ang' >>
  /\ renders' = 1
  /\ pc' = "done"
  /\ UNCHANGED << px, py, fwd, strafe, dt, pose0, call, renderVars >>

NextTurn == TurnLeftTick \/ TurnRightTick

SpecTurn == InitTurn /\ [][NextTurn]_vars

\* C20: turning is symmetric: from every orientation a and for every dt, a
\* left-turn tick gives (a + k) mod 360 and a right-turn tick (a - k) mod 360
\* for the same k, and a left-turn tick followed by a right-turn tick of
\* equal dt gives a again.
C20_TurnSymmetric ==
  /\ (pc = "turn_right") =>
       PyMod(ang - pose0[3], 360)
         = PyMod(pose0[3] - turn_angle(pose0[3], -1, dt), 360)
  /\ (pc = "done" /\ turn = -1) => ang = pose0[3]

-----------------------------------------------------------------------------
(* Frame conditions on the camera pose                                     *)

\* the steps that run render() or cast_ray, in any of the specifications
RenderSteps == {"startup", "render", "frame_begin", "frame_loop", "ray",
                "raycap"}

\* C21: cast_ray and render leave the pose (px, py, ang) unchanged; px and
\* py are assigned only inside try_move and ang only by the turn update of
\* the main loop, so a tick with zero turn intent leaves ang as it was at the
\* start of the tick and a tick with zero forward and strafe intent leaves px
\* and py as they were.
C21_PoseWrittenOnlyByUpdate ==
  [][/\ (pc \in RenderSteps \/ pc = "poll") => Pose' = Pose
     /\ (px' # px \/ py' # py) => (pc = "move" /\ call'.op = "try_move")
     /\ (ang' # ang) => (pc \in {"angle", "turn_left", "turn_right"}
                          /\ turn' # 0)
     /\ (pose0' # << >> /\ turn' = 0) => ang' = pose0'[3]
     /\ (pose0' # << >> /\ fwd' = 0 /\ strafe' = 0) =>
          (px' = pose0'[1] /\ py' = pose0'[2])]_vars

\* a tick that only turned: render() has run on the new orientation and the
\* position is the one of the start of the tick
C21_Witness ==
  /\ tick >= 1 /\ pc = "poll"
  /\ turn # 0 /\ fwd = 0 /\ strafe = 0
  /\ renders = 1 /\ seen = Pose
  /\ ang # pose0[3]
  /\ px = pose0[1] /\ py = pose0[2]

-----------------------------------------------------------------------------
(* The order of the calls of a render pass                                 *)

\* a rectangle of one or more whole columns in a palette colour
IsWallRun(r) ==
  /\ r.x % COL_W = 0 /\ r.w % COL_W = 0 /\ r.w >= COL_W
  /\ \E i \in 1 .. SHADE_LEVELS :
       r.col = WALL_SHADES[i] \/ r.col = DOOR_SHADES[i]

\* C22: in every render pass the first two fill_rect calls are the ceiling
\* (0, 0, W, HALF_H) and the floor (0, HALF_H, W, H - HALF_H), which together
\* cover the whole screen, and both come before every wall-run fill_rect of
\* the pass.
C22_CeilingFloorFirst ==
  /\ (pc = "frame_begin") => calls = << >>
  /\ (call.op = "render" /\ pc \in {"frame_loop", "done"}) =>
       /\ Len(calls) >= 2
       /\ calls[1] = [x |-> 0, y |-> 0, w |-> W, h |-> HALF_H,
                      col |-> << 235, 235, 235 >>]
       /\ calls[2] = [x |-> 0, y |-> HALF_H, w |-> W, h |-> H - HALF_H,
                      col |-> << 70, 40, 20 >>]
       /\ calls[1].h + calls[2].h = H
       /\ calls[2].y = calls[1].y + calls[1].h
       /\ \A k \in 3 .. Len(calls) : IsWallRun(calls[k])

\* a finished pass from the start pose with cast_ray's own results: the two
\* fills, then wall runs from the left edge on
C22_Witness ==
  /\ pc = "done" /\ call.op = "render" /\ call.results = "cast"
  /\ px = START_PX /\ py = START_PY
  /\ Len(calls) > 3
  /\ calls[1].col = CEILING /\ calls[2].col = FLOOR
  /\ calls[3].x = 0 /\ IsWallRun(calls[3])
  /\ calls[Len(calls)].x + calls[Len(calls)].w = W

=============================================================================
